---- MODULE Spec2Model ----
(***************************************************************************)
(* Water-body candidate search, grouping and display of the Paddle Partner *)
(* mobile client.                                                          *)
(*                                                                         *)
(*   getGroupedCandidates   src/unnamed/part_015 (utils/waterBodyGrouping) *)
(*   WaterBodySelectionList src/src/components/WaterBodySelectionList.tsx  *)
(*   searchCombined         src/unnamed/part_012 and                       *)
(*                          src/src/services/waterBodyService.ts           *)
(*                                                                         *)
(* JavaScript values are encoded as follows: an absent (undefined) string  *)
(* field holds Undefined, an absent number field holds NoNumber; the empty *)
(* string and 0 are themselves, so that the truthiness tests of the code   *)
(* (!x, x || d) distinguish exactly what JavaScript distinguishes.         *)
(***************************************************************************)
EXTENDS Integers, Sequences, FiniteSets, TLC

\* -------------------------------------------------------------------------
\* Bounds of the model
\* -------------------------------------------------------------------------
\* longest candidate list handed to getGroupedCandidates
MaxLen == 3

\* longest list of raw records one search response carries
MaxRaw == 4

\* longest response in the runs that look at records of equal distance
MaxTies == 7

\* largest distance, in whole metres, of the range handed to formatDistance
MaxMeters == 1300

\* most calls of fetchWaterBodies during one life of the selection list
MaxFetches == 3

\* most launches of the app, and most push tokens Expo issues to the device
MaxLaunches == 4
MaxTokens == 2

\* -------------------------------------------------------------------------
\* Encoding of JavaScript values
\* -------------------------------------------------------------------------
Undefined == "undefined"
NoNumber == -1

\* JavaScript truthiness of an optional string: undefined and '' are falsy
TruthyStr(s) == s # Undefined /\ s # ""

\* x || 0 for an optional number: undefined and 0 both give 0
OrZero(n) == IF n = NoNumber THEN 0 ELSE n

\* x || '' for an optional string
OrEmpty(s) == IF TruthyStr(s) THEN s ELSE ""

\* -------------------------------------------------------------------------
\* Candidate records (WaterBodySearchResult as the selection list reads it)
\* -------------------------------------------------------------------------
Cand(src, wb, nm, ty, dist, secName, secId, secIdx, osm) ==
  [source |-> src, sharedWaterBodyId |-> wb, name |-> nm, type |-> ty,
   distance |-> dist, sectionName |-> secName, sectionId |-> secId,
   sectionIndex |-> secIdx, osmId |-> osm]

\* name, type and distance sent along with a water body; two records of one
\* water body may disagree on them
Metas ==
  { [name |-> "Lake A", type |-> "lake", distance |-> 500],
    [name |-> "Lake B", type |-> "river", distance |-> NoNumber] }

\* the section part of a candidate: none, two full sections, and a legacy
\* section that has a name but neither id nor index
SectionShapes ==
  { [sectionName |-> Undefined, sectionId |-> Undefined, sectionIndex |-> NoNumber],
    [sectionName |-> "Upper", sectionId |-> "s1", sectionIndex |-> 0],
    [sectionName |-> "Lower", sectionId |-> "s2", sectionIndex |-> 1],
    [sectionName |-> "Upper", sectionId |-> Undefined, sectionIndex |-> NoNumber] }

WaterBodyIds == {"w1", "w2"}

CommunityCandidates ==
  { Cand("shared_database", w, m.name, m.type, m.distance,
         s.sectionName, s.sectionId, s.sectionIndex, Undefined) :
      w \in WaterBodyIds, m \in Metas, s \in SectionShapes }

\* community records whose grouping key is missing or empty
KeylessCandidates ==
  { Cand("shared_database", Undefined, "Lake A", "lake", 500, "Upper", "s1", 0, Undefined),
    Cand("shared_database", "", "Lake B", "river", NoNumber, Undefined, Undefined, NoNumber, Undefined) }

OSMCandidates ==
  { Cand("osm", Undefined, "OSM Lake", "lake", d, Undefined, Undefined, NoNumber, "123") :
      d \in {100, NoNumber} }

Candidates == CommunityCandidates \cup KeylessCandidates \cup OSMCandidates

SeqsUpTo(S, n) == UNION { [1..k -> S] : k \in 0..n }

CandidateLists == SeqsUpTo(Candidates, MaxLen)

\* -------------------------------------------------------------------------
\* getGroupedCandidates
\* -------------------------------------------------------------------------
\* candidate.source === 'osm'
isOSM(candidate) == candidate.source = "osm"

\* a filter that hides every record while the toggle is off
FilteredOutWhenToggleOff(candidate, show) == ~show

\* a filter that ignores the toggle
FilteredOutIgnoringToggle(candidate, show) == FALSE

\* the toggle filter: if (isOSM && !showOSM) continue
FilteredOut(candidate, show) == isOSM(candidate) /\ ~show

\* a key test that lets a record without key through
MissingKeyNeverSkips(candidate) == FALSE

\* a key test that also skips a record without section name
MissingKeyOrSection(candidate) ==
  ~TruthyStr(candidate.sharedWaterBodyId) \/ ~TruthyStr(candidate.sectionName)

\* if (!waterBodyId) continue
MissingKey(candidate) == ~TruthyStr(candidate.sharedWaterBodyId)

\* a lookup that never finds the key
MapHasNever(groups, waterBodyId) == FALSE

\* groups.has(waterBodyId); the Map is kept as the sequence of its values in
\* insertion order
MapHas(groups, waterBodyId) ==
  \E k \in 1..Len(groups) : groups[k].waterBodyId = waterBodyId

\* the object stored by groups.set for a new key
NewGroup(candidate) ==
  [waterBodyId |-> candidate.sharedWaterBodyId, name |-> candidate.name,
   type |-> candidate.type, distance |-> candidate.distance, sections |-> <<>>]

\* a container that puts the newest key first
MapSetFirst(groups, value) == <<value>> \o groups

\* groups.set(waterBodyId, value) for a key not yet in the Map: a JavaScript
\* Map iterates in insertion order, so the new entry goes last
MapSet(groups, value) == Append(groups, value)

\* a set that also overwrites the metadata of a key already present
EnsureGroupOverwriting(groups, candidate) ==
  IF \E k \in 1..Len(groups) : groups[k].waterBodyId = candidate.sharedWaterBodyId
    THEN [k \in 1..Len(groups) |->
            IF groups[k].waterBodyId = candidate.sharedWaterBodyId
              THEN [groups[k] EXCEPT !.name = candidate.name,
                                     !.type = candidate.type,
                                     !.distance = candidate.distance]
              ELSE groups[k]]
    ELSE Append(groups, [waterBodyId |-> candidate.sharedWaterBodyId,
                         name |-> candidate.name, type |-> candidate.type,
                         distance |-> candidate.distance, sections |-> <<>>])

\* if (!groups.has(waterBodyId)) groups.set(...)
EnsureGroup(groups, candidate) ==
  IF MapHas(groups, candidate.sharedWaterBodyId)
    THEN groups
    ELSE MapSet(groups, NewGroup(candidate))

\* position of the entry groups.get(waterBodyId) returns
MapGet(groups, waterBodyId) ==
  CHOOSE k \in 1..Len(groups) :
    /\ groups[k].waterBodyId = waterBodyId
    /\ \A j \in 1..(k - 1) : groups[j].waterBodyId # waterBodyId

\* a section test that also wants the section id
HasSectionWithId(candidate) ==
  TruthyStr(candidate.sectionName) /\ TruthyStr(candidate.sectionId)

\* if (candidate.sectionName)
HasSection(candidate) == TruthyStr(candidate.sectionName)

\* a section entry that copies index and id as they come
SectionEntryWithoutDefaults(candidate) ==
  [sectionIndex |-> candidate.sectionIndex,
   sectionId |-> candidate.sectionId,
   sectionName |-> candidate.sectionName,
   candidate |-> candidate]

\* the object pushed to group.sections
SectionEntry(candidate) ==
  [sectionIndex |-> OrZero(candidate.sectionIndex),
   sectionId |-> OrEmpty(candidate.sectionId),
   sectionName |-> candidate.sectionName,
   candidate |-> candidate]

\* a push that puts the newest section first
PushSectionFirst(sections, entry) == <<entry>> \o sections

\* a push that drops a section whose name the group already lists
PushSectionUnique(sections, entry) ==
  IF \E k \in 1..Len(sections) : sections[k].sectionName = entry.sectionName
    THEN sections
    ELSE Append(sections, entry)

\* group.sections.push(entry)
PushSection(sections, entry) == Append(sections, entry)

\* one iteration of the for loop
GroupStep(acc, candidate, show) ==
  IF FilteredOut(candidate, show) THEN acc
  ELSE IF isOSM(candidate)
    THEN [acc EXCEPT !.osmCandidates = Append(@, candidate)]
  ELSE IF MissingKey(candidate) THEN acc
  ELSE LET withGroup == EnsureGroup(acc.groups, candidate)
           k == MapGet(withGroup, candidate.sharedWaterBodyId)
       IN  IF HasSection(candidate)
             THEN [acc EXCEPT !.groups =
                     [withGroup EXCEPT ![k].sections =
                        PushSection(@, SectionEntry(candidate))]]
             ELSE [acc EXCEPT !.groups = withGroup]

RECURSIVE GroupLoop(_, _, _, _)
GroupLoop(cands, show, i, acc) ==
  IF i > Len(cands) THEN acc
  ELSE GroupLoop(cands, show, i + 1, GroupStep(acc, cands[i], show))

EmptyGrouping == [groups |-> <<>>, osmCandidates |-> <<>>]

getGroupedCandidates(cands, show) == GroupLoop(cands, show, 1, EmptyGrouping)

\* -------------------------------------------------------------------------
\* The list as it is drawn (WaterBodySelectionList, Results)
\* -------------------------------------------------------------------------
\* the cards drawn nearest first: an OSM card closer than every group goes
\* before the groups
DisplayOrderNearestFirst(view) ==
  LET closer == { n \in 1..Len(view.osmCandidates) :
                    /\ view.osmCandidates[n].distance # NoNumber
                    /\ \A k \in 1..Len(view.groups) :
                         view.osmCandidates[n].distance < view.groups[k].distance }
      card(n) == [kind |-> "external", key |-> view.osmCandidates[n].osmId]
      cards(P) == [m \in 1..Cardinality(P) |->
                     card(CHOOSE n \in P :
                            Cardinality({ j \in P : j < n }) = m - 1)]
  IN  cards(closer)
      \o [k \in 1..Len(view.groups) |->
            [kind |-> "community", key |-> view.groups[k].waterBodyId]]
      \o cards((1..Len(view.osmCandidates)) \ closer)

\* the OSM cards drawn before the community groups
DisplayOrderOSMFirst(view) ==
  [n \in 1..Len(view.osmCandidates) |->
     [kind |-> "external", key |-> view.osmCandidates[n].osmId]]
  \o
  [k \in 1..Len(view.groups) |->
     [kind |-> "community", key |-> view.groups[k].waterBodyId]]

\* {groups.map(...)} followed by {osmCandidates.map(...)}: the cards of the
\* list from top to bottom
DisplayOrder(view) ==
  [k \in 1..Len(view.groups) |->
     [kind |-> "community", key |-> view.groups[k].waterBodyId]]
  \o
  [n \in 1..Len(view.osmCandidates) |->
     [kind |-> "external", key |-> view.osmCandidates[n].osmId]]

\* -------------------------------------------------------------------------
\* sortWaterBodyResults of @paddlepartner/shared, called by searchCombined
\* (src/src/services/waterBodyService.ts:239).  The package is not part of
\* the sources at hand; the order is the one the specification and the test
\* 'should sort community data before OSM data' describe: community records
\* first, each part ascending by distance, records without distance last,
\* ties in input order.
\* -------------------------------------------------------------------------
\* the elements of seq that satisfy neither/both parts of a two-way split
RECURSIVE Keep(_, _, _)
Keep(seq, S, i) ==
  IF i > Len(seq) THEN <<>>
  ELSE (IF seq[i] \in S THEN <<seq[i]>> ELSE <<>>) \o Keep(seq, S, i + 1)

\* stable insertion of x into a list that is ascending by distance
RECURSIVE InsertByDistance(_, _, _)
InsertByDistance(sorted, x, j) ==
  IF j >= 1 /\ sorted[j].distance > x.distance
    THEN InsertByDistance(sorted, x, j - 1)
    ELSE SubSeq(sorted, 1, j) \o <<x>> \o SubSeq(sorted, j + 1, Len(sorted))

RECURSIVE AscendingByDistance(_, _, _)
AscendingByDistance(seq, i, sorted) ==
  IF i > Len(seq) THEN sorted
  ELSE AscendingByDistance(seq, i + 1, InsertByDistance(sorted, seq[i], Len(sorted)))

SortPartition(seq) ==
  LET elems == { seq[i] : i \in 1..Len(seq) }
      withDistance == Keep(seq, { e \in elems : e.distance # NoNumber }, 1)
      without == Keep(seq, { e \in elems : e.distance = NoNumber }, 1)
  IN  AscendingByDistance(withDistance, 1, <<>>) \o without

sortWaterBodyResults(seq) ==
  LET elems == { seq[i] : i \in 1..Len(seq) }
  IN  SortPartition(Keep(seq, { e \in elems : e.source # "osm" }, 1))
        \o SortPartition(Keep(seq, { e \in elems : e.source = "osm" }, 1))

\* -------------------------------------------------------------------------
\* searchCombined with its own normalizing loop and sort
\* (src/unnamed/part_012)
\* -------------------------------------------------------------------------
NoCoordinates == <<>>

Raw(wb, shared, secId, secName, sec, osm, osmTy, nm, coords, secCoords, dist) ==
  [waterBodyId |-> wb, sharedWaterBodyId |-> shared, sectionId |-> secId,
   sectionName |-> secName, section |-> sec, osmId |-> osm, osmType |-> osmTy,
   name |-> nm, coordinates |-> coords, sectionCoordinates |-> secCoords,
   distance |-> dist]

Distances == {NoNumber, 100, 500}

\* the records the two endpoints send: a water body found by location and an
\* OSM water body, each at any distance or without one; a section found by
\* location; a section found by name (sharedWaterBodyId and section instead
\* of waterBodyId and sectionName); a legacy section without sectionId; a
\* section whose water body id is missing; and a record with none of the
\* identifiers
RawRecords ==
  UNION { { Raw("w1", Undefined, Undefined, Undefined, Undefined, Undefined, Undefined,
                "Lake A", <<-82, 35>>, NoCoordinates, d),
            Raw(Undefined, Undefined, Undefined, Undefined, Undefined, "123", "way",
                "OSM Lake", <<-82, 36>>, NoCoordinates, d) } : d \in Distances }
  \cup
  { Raw("w1", Undefined, "s1", "Upper", Undefined, Undefined, Undefined,
        "Lake A", NoCoordinates, <<-83, 36>>, 500),
    Raw(Undefined, "w2", "s2", Undefined, "Lower", Undefined, Undefined,
        "Lake B", NoCoordinates, NoCoordinates, NoNumber),
    Raw("w2", Undefined, Undefined, "Upper", Undefined, Undefined, Undefined,
        "Lake B", NoCoordinates, NoCoordinates, 100),
    Raw(Undefined, Undefined, "s1", "Upper", Undefined, Undefined, Undefined,
        "Lake A", NoCoordinates, NoCoordinates, 500),
    Raw(Undefined, Undefined, Undefined, Undefined, Undefined, Undefined, Undefined,
        "Nameless", NoCoordinates, NoCoordinates, NoNumber) }

RawLists == SeqsUpTo(RawRecords, MaxRaw)

\* a || b for optional strings
OrElse(a, b) == IF TruthyStr(a) THEN a ELSE b

\* candidate.coordinates || candidate.sectionCoordinates || [0, 0]
CoordinatesOr(a, b) ==
  IF a # NoCoordinates THEN a ELSE IF b # NoCoordinates THEN b ELSE <<0, 0>>

\* `osm-${candidate.osmType}-${candidate.osmId}`
OsmResultId(osmType, osmId) == "osm-" \o osmType \o "-" \o osmId

\* the body of candidates.forEach: the results one raw record pushes
NormalizeCandidate(candidate) ==
  LET waterBodyId == OrElse(candidate.waterBodyId, candidate.sharedWaterBodyId)
      sectionId == candidate.sectionId
      sectionName == OrElse(candidate.sectionName, candidate.section)
  IN  IF TruthyStr(sectionName) /\ TruthyStr(sectionId)
        THEN << [type |-> "section",
                 id |-> sectionId,
                 name |-> candidate.name \o " - " \o sectionName,
                 sharedWaterBody |->
                   [_id |-> waterBodyId, name |-> candidate.name,
                    coordinates |-> CoordinatesOr(candidate.coordinates,
                                                  candidate.sectionCoordinates)],
                 section |->
                   [_id |-> sectionId, sharedWaterBody |-> waterBodyId,
                    sectionName |-> sectionName,
                    coordinates |-> CoordinatesOr(candidate.coordinates,
                                                  candidate.sectionCoordinates)],
                 distance |-> candidate.distance] >>
      ELSE IF TruthyStr(candidate.osmId)
        THEN << [type |-> "shared",
                 id |-> OsmResultId(candidate.osmType, candidate.osmId),
                 name |-> candidate.name,
                 sharedWaterBody |->
                   [_id |-> OrEmpty(candidate.osmId), name |-> candidate.name,
                    coordinates |-> CoordinatesOr(candidate.coordinates, NoCoordinates)],
                 distance |-> candidate.distance] >>
      ELSE IF TruthyStr(waterBodyId)
        THEN << [type |-> "shared",
                 id |-> waterBodyId,
                 name |-> candidate.name,
                 sharedWaterBody |->
                   [_id |-> waterBodyId, name |-> candidate.name,
                    coordinates |-> CoordinatesOr(candidate.coordinates, NoCoordinates)],
                 distance |-> candidate.distance] >>
      ELSE <<>>

RECURSIVE Normalize(_, _)
Normalize(raws, i) ==
  IF i > Len(raws) THEN <<>>
  ELSE NormalizeCandidate(raws[i]) \o Normalize(raws, i + 1)

\* the comparator handed to results.sort
CompareDistance(a, b) ==
  IF a.distance # NoNumber /\ b.distance # NoNumber
    THEN a.distance - b.distance
    ELSE 0

\* Array.prototype.sort.  The comparator above is not a consistent one when
\* some records lack a distance (it reports such a record equal to every
\* other record), and for such a comparator ECMAScript leaves the order to
\* the engine.  Both ways in which engines sort short arrays are modelled:
\* insertion that walks left from the end of the sorted prefix, and insertion
\* at the slot a binary search finds.  For a consistent comparator both give
\* the stable ascending order.
SortEngines == {"linear", "binary"}

RECURSIVE LinearSlot(_, _, _)
LinearSlot(prefix, x, j) ==
  IF j >= 1 /\ CompareDistance(prefix[j], x) > 0
    THEN LinearSlot(prefix, x, j - 1)
    ELSE j

RECURSIVE BinarySlot(_, _, _, _)
BinarySlot(prefix, pivot, left, right) ==
  IF left >= right THEN left
  ELSE LET mid == left + ((right - left) \div 2)
       IN  IF CompareDistance(pivot, prefix[mid + 1]) < 0
             THEN BinarySlot(prefix, pivot, left, mid)
             ELSE BinarySlot(prefix, pivot, mid + 1, right)

InsertAt(prefix, x, k) ==
  SubSeq(prefix, 1, k) \o <<x>> \o SubSeq(prefix, k + 1, Len(prefix))

RECURSIVE InsertionSort(_, _, _, _)
InsertionSort(engine, seq, i, prefix) ==
  IF i > Len(seq) THEN prefix
  ELSE LET k == IF engine = "linear"
                  THEN LinearSlot(prefix, seq[i], Len(prefix))
                  ELSE BinarySlot(prefix, seq[i], 0, Len(prefix))
       IN  InsertionSort(engine, seq, i + 1, InsertAt(prefix, seq[i], k))

ArraySort(engine, seq) == InsertionSort(engine, seq, 1, <<>>)

\* -------------------------------------------------------------------------
\* formatDistance (waterBodyService.ts and, as a local function,
\* WaterBodySelectionList.tsx).  A distance is held in tenths of a metre, so
\* that Math.round has something to round; t stands for the number t / 10.
\* -------------------------------------------------------------------------
\* Math.round(t / 10): the nearest integer, a half rounds up
MathRound(t) == (t + 5) \div 10

\* the whole metres m between 1000 and 2000 for which the double m / 1000
\* lies below the decimal halfway point m / 1000 (1.15 is stored as
\* 1.149999999999999911); every other halfway case in that range is stored
\* exactly (1.25, 1.75) or above it
QuotientBelowHalfway == {1150, 1450, 1650, 1950}

\* (t / 10 / 1000).toFixed(1): the integer n for which n / 10 is nearest to the
\* double, the larger one of two equally near, written with one decimal
ToFixed1(t) ==
  LET n == IF t % 1000 = 500 /\ (t \div 10) \in QuotientBelowHalfway
             THEN t \div 1000
             ELSE (t + 500) \div 1000
  IN  ToString(n \div 10) \o "." \o ToString(n % 10)

\* a formatter that still writes metres at exactly 1000
formatDistanceInclusive(t) ==
  IF t <= 10000
    THEN ToString(MathRound(t)) \o "m"
    ELSE ToFixed1(t) \o "km"

\* waterBodyService.formatDistance
formatDistance(t) ==
  IF t < 10000
    THEN ToString(MathRound(t)) \o "m"
    ELSE ToFixed1(t) \o "km"

\* const formatDistance of WaterBodySelectionList
formatDistanceLocal(t) ==
  IF t < 10000
    THEN ToString(MathRound(t)) \o "m"
    ELSE ToFixed1(t) \o "km"

\* the distances formatted: every tenth of a metre up to MaxMeters, and the
\* values of the service test beyond it (1500 and 10250 metres)
FormatInputs == (0..(MaxMeters * 10)) \cup {15000, 102500}

\* -------------------------------------------------------------------------
\* State
\* -------------------------------------------------------------------------
VARIABLES
  candidates,     \* useState: the search results the list holds
  showOSM,        \* useState: the 'Show Non-Community Water Bodies' toggle
  isLoading,      \* useState: a fetch is under way
  error,          \* useState: the message of a failed fetch, '' when none
  osmStatus,      \* useState: how the OSM lookup of the last response went
  rendered,       \* whether the result list has been drawn at least once
  grouped,        \* { groups, osmCandidates } computed by the last render
  parsedResults,  \* searchCombined: the results of parseWaterBodyCandidates
  waterBodies,    \* searchCombined: response.data.waterBodies
  results,        \* searchCombined: the results array it returns
  returned,       \* whether searchCombined has returned
  meters,         \* the distance handed to formatDistance, in tenths of a metre
  serviceText,    \* what waterBodyService.formatDistance returned, '' before
  listText,       \* what the formatDistance of the list returned, '' before
  requests,       \* fetchWaterBodies: how each call's searchCombined settles, by call
  pending,        \* fetchWaterBodies: the calls whose searchCombined has not settled
  storedToken,    \* AsyncStorage: the JWT under TOKEN_KEY, 'null' when none
  storedUser,     \* AsyncStorage: the user under USER_KEY, 'null' when none
  authPc,         \* where loginWithGoogle or logout stands
  attempt,        \* loginWithGoogle: the loop variable of the polling loop
  polls,          \* loginWithGoogle: status requests answered in this login
  lastPoll,       \* loginWithGoogle: the status the last poll returned
  loginResult,    \* loginWithGoogle: what the last login returned, 'none' before
  loginStored,    \* loginWithGoogle: what this login has written to storage
  lastStatus,     \* the status of the error response the last step handled, 0 if none
  lastFinished,   \* the operation of authService that returned last
  pushTokenItem,  \* AsyncStorage: the token under PUSH_TOKEN_KEY, 0 when none
  tokenRegisteredItem,\* AsyncStorage: the flag under TOKEN_REGISTERED_KEY
  deviceToken,    \* the push token Expo currently issues to this device
  launches,       \* runs of registerForPushNotificationsAsync so far
  prevRun,        \* the run before the last one: token, called, status
  lastRun,        \* the last run: its token, whether it called the backend, the status
  succeeded,      \* the tokens for which registerPushToken has succeeded
  photoUri,       \* useState: the quality, in tenths, of the attached file; 0 when null
  photoData,      \* useState: the size of the attached base64 data; 0 when null
  photoPc,        \* where compressAndSetPhoto stands
  tried,          \* compressAndSetPhoto: quality and size of each attempt made
  photoOutcome,   \* how the last compressAndSetPhoto ended
  before          \* photoUri and photoData when compressAndSetPhoto was called

listVars == <<candidates, showOSM, isLoading, error, osmStatus, rendered,
             grouped, parsedResults>>
searchVars == <<waterBodies, results, returned>>
formatVars == <<meters, serviceText, listText>>
fetchVars == <<requests, pending>>
authVars == <<storedToken, storedUser, authPc, attempt, polls, lastPoll, loginResult, loginStored, lastStatus, lastFinished>>
pushVars == <<pushTokenItem, tokenRegisteredItem, deviceToken, launches, prevRun, lastRun, succeeded>>
photoVars == <<photoUri, photoData, photoPc, tried, photoOutcome, before>>
vars == <<candidates, showOSM, isLoading, error, osmStatus, rendered, grouped,
          parsedResults, waterBodies, results, returned,
          meters, serviceText, listText,
          requests, pending,
          storedToken, storedUser, authPc, attempt, polls, lastPoll, loginResult, loginStored, lastStatus, lastFinished,
          pushTokenItem, tokenRegisteredItem, deviceToken, launches, prevRun, lastRun, succeeded,
          photoUri, photoData, photoPc, tried, photoOutcome, before>>

\* useState<OSMStatus | null>(null); of an OSMStatus only success is read
NoStatus == "null"
OSMStatuses == {NoStatus, "success", "failed"}

\* err.response?.data?.error || err.message || 'Failed to fetch water bodies'
FetchErrors == {"Failed to fetch water bodies"}

\* no search of the stand-alone service under way
SearchIdle == waterBodies = <<>> /\ results = <<>> /\ returned = FALSE

\* no distance being formatted
FormatIdle == meters = 0 /\ serviceText = "" /\ listText = ""

\* no call of fetchWaterBodies recorded
FetchIdle == requests = <<>> /\ pending = {}

\* nobody logged in and no operation of authService under way
AuthIdle ==
  /\ storedToken = "null"
  /\ storedUser = "null"
  /\ authPc = "idle"
  /\ attempt = 0
  /\ polls = 0
  /\ lastPoll = "none"
  /\ loginResult = "none"
  /\ loginStored = {}
  /\ lastStatus = 0
  /\ lastFinished = "none"

\* a fresh install that has not run registerForPushNotificationsAsync
NoPushToken == 0
NoRun == [token |-> NoPushToken, called |-> FALSE, status |-> NoNumber]
PushIdle ==
  /\ pushTokenItem = NoPushToken
  /\ tokenRegisteredItem = "null"
  /\ deviceToken = 1
  /\ launches = 0
  /\ prevRun = NoRun
  /\ lastRun = NoRun
  /\ succeeded = {}

\* no photo attached and no compression under way
NoPhoto == [uri |-> 0, data |-> 0]
PhotoIdle ==
  /\ photoUri = 0
  /\ photoData = 0
  /\ photoPc = "idle"
  /\ tried = <<>>
  /\ photoOutcome = "none"
  /\ before = NoPhoto

\* the selection list before its first fetch
ListIdle ==
  /\ candidates = <<>>
  /\ showOSM = TRUE
  /\ isLoading = FALSE
  /\ error = ""
  /\ osmStatus = NoStatus
  /\ rendered = FALSE
  /\ grouped = EmptyGrouping
  /\ parsedResults = <<>>

\* -------------------------------------------------------------------------
\* The grouping as the selection list applies it to an arbitrary list
\* -------------------------------------------------------------------------
InitGroup ==
  /\ candidates \in CandidateLists
  /\ showOSM \in BOOLEAN
  /\ isLoading = FALSE
  /\ error = ""
  /\ osmStatus = NoStatus
  /\ rendered = FALSE
  /\ grouped = EmptyGrouping
  /\ parsedResults = <<>>
  /\ SearchIdle
  /\ FormatIdle
  /\ FetchIdle
  /\ AuthIdle
  /\ PushIdle
  /\ PhotoIdle

\* the component body: const { groups, osmCandidates } =
\*   getGroupedCandidates(candidates, showOSM)
Render ==
  /\ ~isLoading
  /\ ~rendered
  /\ rendered' = TRUE
  /\ grouped' = getGroupedCandidates(candidates, showOSM)
  /\ UNCHANGED <<candidates, showOSM, isLoading, error, osmStatus, parsedResults>>
  /\ UNCHANGED <<searchVars, formatVars, fetchVars, authVars, pushVars, photoVars>>

\* a toggle that throws the results away, as a new search would
ToggleOSMRefetching ==
  /\ rendered
  /\ showOSM' = ~showOSM
  /\ candidates' = <<>>
  /\ grouped' = getGroupedCandidates(candidates', showOSM')
  /\ UNCHANGED <<isLoading, error, osmStatus, rendered, parsedResults>>
  /\ UNCHANGED <<searchVars, formatVars, fetchVars, authVars, pushVars, photoVars>>

\* onPress={() => setShowOSM(!showOSM)}, followed by the re-render
ToggleOSM ==
  /\ rendered
  /\ showOSM' = ~showOSM
  /\ grouped' = getGroupedCandidates(candidates, showOSM')
  /\ UNCHANGED <<candidates, isLoading, error, osmStatus, rendered, parsedResults>>
  /\ UNCHANGED <<searchVars, formatVars, fetchVars, authVars, pushVars, photoVars>>

NextGroup == Render \/ ToggleOSM

SpecGroup == InitGroup /\ [][NextGroup]_vars

\* -------------------------------------------------------------------------
\* The selection list fed by searchCombined of waterBodyService.ts
\* -------------------------------------------------------------------------
\* the component is mounted and fetchWaterBodies has sent its request; the
\* response, once parsed, is any list of candidates
InitDisplay ==
  /\ parsedResults \in CandidateLists
  /\ candidates = <<>>
  /\ showOSM = TRUE
  /\ isLoading = TRUE
  /\ error = ""
  /\ osmStatus = NoStatus
  /\ rendered = FALSE
  /\ grouped = EmptyGrouping
  /\ SearchIdle
  /\ FormatIdle
  /\ FetchIdle
  /\ AuthIdle
  /\ PushIdle
  /\ PhotoIdle

\* the try branch of fetchWaterBodies: searchCombined returns
\* { results: sortWaterBodyResults(results), osmStatus }; the results and the
\* status are stored, isLoading is cleared, and the list is drawn
FetchResolved ==
  /\ isLoading
  /\ candidates' = sortWaterBodyResults(parsedResults)
  /\ \E status \in OSMStatuses : osmStatus' = status
  /\ isLoading' = FALSE
  /\ rendered' = TRUE
  /\ grouped' = getGroupedCandidates(candidates', showOSM)
  /\ UNCHANGED <<showOSM, error, parsedResults>>
  /\ UNCHANGED <<searchVars, formatVars, fetchVars, authVars, pushVars, photoVars>>

\* the catch branch of fetchWaterBodies: the message is stored, isLoading is
\* cleared, and the error view is drawn in place of the list
FetchRejected ==
  /\ isLoading
  /\ \E message \in FetchErrors : error' = message
  /\ isLoading' = FALSE
  /\ UNCHANGED <<candidates, showOSM, osmStatus, rendered, grouped, parsedResults>>
  /\ UNCHANGED <<searchVars, formatVars, fetchVars, authVars, pushVars, photoVars>>

\* 'Try Again' on the error view, or 'Retry' next to the toggle when the OSM
\* lookup failed: fetchWaterBodies clears the state and sends a new request
Retry ==
  /\ ~isLoading
  /\ error # "" \/ osmStatus = "failed"
  /\ isLoading' = TRUE
  /\ error' = ""
  /\ candidates' = <<>>
  /\ osmStatus' = NoStatus
  /\ rendered' = FALSE
  /\ grouped' = getGroupedCandidates(candidates', showOSM)
  /\ UNCHANGED <<showOSM, parsedResults>>
  /\ UNCHANGED <<searchVars, formatVars, fetchVars, authVars, pushVars, photoVars>>

NextDisplay == FetchResolved \/ FetchRejected \/ Retry \/ ToggleOSM

SpecDisplay == InitDisplay /\ [][NextDisplay]_vars

\* -------------------------------------------------------------------------
\* searchCombined of src/unnamed/part_012 on its own
\* -------------------------------------------------------------------------
InitSearch ==
  /\ waterBodies \in RawLists
  /\ results = <<>>
  /\ returned = FALSE
  /\ candidates = <<>>
  /\ showOSM = TRUE
  /\ isLoading = FALSE
  /\ error = ""
  /\ osmStatus = NoStatus
  /\ rendered = FALSE
  /\ grouped = EmptyGrouping
  /\ parsedResults = <<>>
  /\ FormatIdle
  /\ FetchIdle
  /\ AuthIdle
  /\ PushIdle
  /\ PhotoIdle

\* candidates.forEach(...); results.sort(...); return { results, osmStatus }
SearchCombined ==
  /\ ~returned
  /\ returned' = TRUE
  /\ \E engine \in SortEngines :
       results' = ArraySort(engine, Normalize(waterBodies, 1))
  /\ UNCHANGED waterBodies
  /\ UNCHANGED <<listVars, formatVars, fetchVars, authVars, pushVars, photoVars>>

NextSearch == SearchCombined

SpecSearch == InitSearch /\ [][NextSearch]_vars

\* -------------------------------------------------------------------------
\* searchCombined of src/unnamed/part_012 on longer responses of few kinds
\* of record: water bodies at equal and at different distances and without
\* distance
\* -------------------------------------------------------------------------
TieRecords ==
  { r \in RawRecords :
      /\ TruthyStr(r.waterBodyId)
      /\ r.sectionId = Undefined
      /\ r.distance \in {NoNumber, 100, 500}
      /\ (r.distance = 500 => r.name = "Lake A") }

InitTies ==
  /\ waterBodies \in SeqsUpTo(TieRecords, MaxTies)
  /\ results = <<>>
  /\ returned = FALSE
  /\ candidates = <<>>
  /\ showOSM = TRUE
  /\ isLoading = FALSE
  /\ error = ""
  /\ osmStatus = NoStatus
  /\ rendered = FALSE
  /\ grouped = EmptyGrouping
  /\ parsedResults = <<>>
  /\ FormatIdle
  /\ FetchIdle
  /\ AuthIdle
  /\ PushIdle
  /\ PhotoIdle

SpecTies == InitTies /\ [][NextSearch]_vars

\* -------------------------------------------------------------------------
\* formatDistance applied to one distance by the service and by the list
\* -------------------------------------------------------------------------
InitFormat ==
  /\ meters \in FormatInputs
  /\ serviceText = ""
  /\ listText = ""
  /\ ListIdle
  /\ SearchIdle
  /\ FetchIdle
  /\ AuthIdle
  /\ PushIdle
  /\ PhotoIdle

\* waterBodyService.formatDistance(meters) and formatDistance(meters) of the
\* list, for the same distance
FormatDistance ==
  /\ serviceText = ""
  /\ serviceText' = formatDistance(meters)
  /\ listText' = formatDistanceLocal(meters)
  /\ UNCHANGED meters
  /\ UNCHANGED <<listVars, searchVars, fetchVars, authVars, pushVars, photoVars>>

NextFormat == FormatDistance

SpecFormat == InitFormat /\ [][NextFormat]_vars

\* -------------------------------------------------------------------------
\* The selection list with calls of fetchWaterBodies that overlap: the effect
\* on [coordinates] starts a call whenever the coordinates change, whether or
\* not an earlier call is still waiting for searchCombined
\* -------------------------------------------------------------------------
\* what searchCombined of one call returns or throws
ResponseLists ==
  { <<>>,
    << Cand("shared_database", "w1", "Lake A", "lake", 500,
            Undefined, Undefined, NoNumber, Undefined) >>,
    << Cand("shared_database", "w2", "Lake B", "river", NoNumber,
            "Upper", "s1", 0, Undefined),
       Cand("osm", Undefined, "OSM Lake", "lake", 100,
            Undefined, Undefined, NoNumber, "123") >> }

FetchOutcomes ==
  { [kind |-> "resolved", results |-> r, osmStatus |-> s] :
      r \in ResponseLists, s \in {"success", "failed"} }
  \cup { [kind |-> "rejected", message |-> m] : m \in FetchErrors }

\* the list is on screen: neither the loading view nor the error view
ListShown(loading, message) == ~loading /\ message = ""

\* fetchWaterBodies up to its await: the four setters, then the request;
\* what started the call is written down next to how it will settle
StartFetch(trigger, outcome) ==
  /\ Len(requests) < MaxFetches
  /\ isLoading' = TRUE
  /\ error' = ""
  /\ candidates' = <<>>
  /\ osmStatus' = NoStatus
  /\ requests' = Append(requests, [trigger |-> trigger, outcome |-> outcome])
  /\ pending' = pending \cup {Len(requests) + 1}
  /\ rendered' = FALSE
  /\ grouped' = getGroupedCandidates(candidates', showOSM)
  /\ UNCHANGED <<showOSM, parsedResults>>
  /\ UNCHANGED <<searchVars, formatVars, authVars, pushVars, photoVars>>

\* the component is mounted and the effect has made the first call
InitOverlap ==
  /\ \E outcome \in FetchOutcomes :
       requests = << [trigger |-> "coordinates", outcome |-> outcome] >>
  /\ pending = {1}
  /\ candidates = <<>>
  /\ showOSM = TRUE
  /\ isLoading = TRUE
  /\ error = ""
  /\ osmStatus = NoStatus
  /\ rendered = FALSE
  /\ grouped = EmptyGrouping
  /\ parsedResults = <<>>
  /\ SearchIdle
  /\ FormatIdle
  /\ AuthIdle
  /\ PushIdle
  /\ PhotoIdle

\* useEffect(() => { fetchWaterBodies() }, [coordinates]): the parent hands
\* over new coordinates
CoordinatesChanged ==
  \E outcome \in FetchOutcomes : StartFetch("coordinates", outcome)

\* onPress={fetchWaterBodies} of 'Try Again' on the error view and of 'Retry'
\* next to the toggle, which is drawn when the OSM lookup failed
RetryPressed ==
  /\ ~isLoading
  /\ error # "" \/ osmStatus = "failed"
  /\ \E outcome \in FetchOutcomes : StartFetch("retry", outcome)

\* the continuation of a call whose searchCombined returned: setCandidates,
\* setOsmStatus, and setIsLoading(false) of the finally block
ResponseArrives(id) ==
  /\ id \in pending
  /\ requests[id].outcome.kind = "resolved"
  /\ candidates' = requests[id].outcome.results
  /\ osmStatus' = requests[id].outcome.osmStatus
  /\ isLoading' = FALSE
  /\ pending' = pending \ {id}
  /\ rendered' = ListShown(isLoading', error)
  /\ grouped' = getGroupedCandidates(candidates', showOSM)
  /\ UNCHANGED <<showOSM, error, parsedResults, requests>>
  /\ UNCHANGED <<searchVars, formatVars, authVars, pushVars, photoVars>>

\* the continuation of a call whose searchCombined threw: setError, and
\* setIsLoading(false) of the finally block
RequestFails(id) ==
  /\ id \in pending
  /\ requests[id].outcome.kind = "rejected"
  /\ error' = requests[id].outcome.message
  /\ isLoading' = FALSE
  /\ pending' = pending \ {id}
  /\ rendered' = FALSE
  /\ UNCHANGED <<candidates, showOSM, osmStatus, grouped, parsedResults, requests>>
  /\ UNCHANGED <<searchVars, formatVars, authVars, pushVars, photoVars>>

NextOverlap ==
  \/ CoordinatesChanged
  \/ RetryPressed
  \/ \E id \in 1..MaxFetches : ResponseArrives(id)
  \/ \E id \in 1..MaxFetches : RequestFails(id)
  \/ ToggleOSM

SpecOverlap == InitOverlap /\ [][NextOverlap]_vars

\* -------------------------------------------------------------------------
\* authService.loginWithGoogle and logout, and the response interceptor of
\* the api module, over the two keys they keep in AsyncStorage
\* -------------------------------------------------------------------------
\* const maxAttempts = 30
maxAttempts == 30

\* AsyncStorage.getItem of a key that is not set
NoItem == "null"

\* the statuses of error responses the interceptor sees
ErrorStatuses == {401, 403, 500}

\* an interceptor that clears the session on every error response
AfterAnyErrorResponse(status, item) == NoItem

\* the response interceptor: if (error.response?.status === 401)
\*   await AsyncStorage.multiRemove([TOKEN_KEY, USER_KEY])
AfterErrorResponse(status, item) == IF status = 401 THEN NoItem ELSE item

\* a loop test that lets one more poll through
LoopContinuesOnceMore(n) == n <= maxAttempts

\* attempt < maxAttempts
LoopContinues(n) == n < maxAttempts

\* authService.isAuthenticated(): token !== null
isAuthenticated(token) == token # NoItem

\* the app starts logged out, or logged in by an earlier run
InitAuth ==
  /\ \/ storedToken = NoItem /\ storedUser = NoItem
     \/ storedToken = "jwt" /\ storedUser = "user"
  /\ authPc = "idle"
  /\ attempt = 0
  /\ polls = 0
  /\ lastPoll = "none"
  /\ loginResult = "none"
  /\ loginStored = {}
  /\ lastStatus = 0
  /\ lastFinished = "none"
  /\ ListIdle
  /\ SearchIdle
  /\ FormatIdle
  /\ FetchIdle
  /\ PushIdle
  /\ PhotoIdle

\* return { success, error } of loginWithGoogle
LoginReturns(result) ==
  /\ loginResult' = result
  /\ authPc' = "idle"
  /\ lastFinished' = "login"

\* catch (error): an awaited api call threw; an error response went through
\* the interceptor first, a network error did not (status 0)
LoginCatches(status) ==
  /\ storedToken' = AfterErrorResponse(status, storedToken)
  /\ storedUser' = AfterErrorResponse(status, storedUser)
  /\ lastStatus' = status
  /\ LoginReturns("Network Error")

\* LoginScreen calls loginWithGoogle: api.get('/auth/mobile/google/init')
LoginStart ==
  /\ authPc = "idle"
  /\ authPc' = "init"
  /\ attempt' = 0
  /\ polls' = 0
  /\ lastPoll' = "none"
  /\ loginResult' = "none"
  /\ loginStored' = {}
  /\ lastStatus' = 0
  /\ UNCHANGED <<storedToken, storedUser, lastFinished>>
  /\ UNCHANGED <<listVars, searchVars, formatVars, fetchVars, pushVars, photoVars>>

\* the init request is answered
InitResponds ==
  /\ authPc = "init"
  /\ \/ /\ authPc' = "browser"
        /\ lastStatus' = 0
        /\ UNCHANGED <<storedToken, storedUser, loginResult, lastFinished>>
     \/ /\ LoginReturns("Failed to initialize authentication")
        /\ lastStatus' = 0
        /\ UNCHANGED <<storedToken, storedUser>>
     \/ \E status \in ErrorStatuses \cup {0} : LoginCatches(status)
  /\ UNCHANGED <<attempt, polls, lastPoll, loginStored>>
  /\ UNCHANGED <<listVars, searchVars, formatVars, fetchVars, pushVars, photoVars>>
  /\ PushIdle
  /\ PhotoIdle

\* WebBrowser.openAuthSessionAsync returns, whatever its result.type
BrowserCloses ==
  /\ authPc = "browser"
  /\ authPc' = "poll"
  /\ lastStatus' = 0
  /\ UNCHANGED <<storedToken, storedUser, attempt, polls, lastPoll, loginResult,
                 loginStored, lastFinished>>
  /\ UNCHANGED <<listVars, searchVars, formatVars, fetchVars, pushVars, photoVars>>

\* one turn of the polling loop: the wait, the status request and its answer
PollResponds ==
  /\ authPc = "poll"
  /\ LoopContinues(attempt)
  /\ polls' = polls + 1
  /\ \/ /\ lastPoll' = "success"
        /\ authPc' = "setToken"
        /\ lastStatus' = 0
        /\ UNCHANGED <<storedToken, storedUser, attempt, loginResult, lastFinished>>
     \/ /\ lastPoll' = "error"
        /\ LoginReturns("access_denied")
        /\ lastStatus' = 0
        /\ UNCHANGED <<storedToken, storedUser, attempt>>
     \/ /\ lastPoll' = "pending"
        /\ attempt' = attempt + 1
        /\ lastStatus' = 0
        /\ IF LoopContinues(attempt')
             THEN UNCHANGED <<authPc, loginResult, lastFinished>>
             ELSE LoginReturns("Authentication timeout - please try again")
        /\ UNCHANGED <<storedToken, storedUser>>
     \/ /\ lastPoll' = "threw"
        /\ \E status \in ErrorStatuses \cup {0} : LoginCatches(status)
        /\ UNCHANGED attempt
  /\ UNCHANGED loginStored
  /\ UNCHANGED <<listVars, searchVars, formatVars, fetchVars, pushVars, photoVars>>

\* await tokenManager.setToken(token)
SetToken ==
  /\ authPc = "setToken"
  /\ storedToken' = "jwt"
  /\ loginStored' = loginStored \cup {"token"}
  /\ authPc' = "setUser"
  /\ lastStatus' = 0
  /\ UNCHANGED <<storedUser, attempt, polls, lastPoll, loginResult, lastFinished>>
  /\ UNCHANGED <<listVars, searchVars, formatVars, fetchVars, pushVars, photoVars>>

\* await userManager.setUser(user); return { success: true, user }
SetUser ==
  /\ authPc = "setUser"
  /\ storedUser' = "user"
  /\ loginStored' = loginStored \cup {"user"}
  /\ LoginReturns("success")
  /\ lastStatus' = 0
  /\ UNCHANGED <<storedToken, attempt, polls, lastPoll>>
  /\ UNCHANGED <<listVars, searchVars, formatVars, fetchVars, pushVars, photoVars>>

\* authService.logout: await tokenManager.removeToken()
RemoveToken ==
  /\ authPc = "idle"
  /\ storedToken' = NoItem
  /\ authPc' = "removeUser"
  /\ lastStatus' = 0
  /\ UNCHANGED <<storedUser, attempt, polls, lastPoll, loginResult, loginStored,
                 lastFinished>>
  /\ UNCHANGED <<listVars, searchVars, formatVars, fetchVars, pushVars, photoVars>>

\* authService.logout: await userManager.removeUser(), and the return
RemoveUser ==
  /\ authPc = "removeUser"
  /\ storedUser' = NoItem
  /\ authPc' = "idle"
  /\ lastFinished' = "logout"
  /\ lastStatus' = 0
  /\ UNCHANGED <<storedToken, attempt, polls, lastPoll, loginResult, loginStored>>
  /\ UNCHANGED <<listVars, searchVars, formatVars, fetchVars, pushVars, photoVars>>

\* some other request of the app is answered with an error status and goes
\* through the response interceptor
ErrorResponse(status) ==
  /\ storedToken' = AfterErrorResponse(status, storedToken)
  /\ storedUser' = AfterErrorResponse(status, storedUser)
  /\ lastStatus' = status
  /\ UNCHANGED <<authPc, attempt, polls, lastPoll, loginResult, loginStored,
                 lastFinished>>
  /\ UNCHANGED <<listVars, searchVars, formatVars, fetchVars, pushVars, photoVars>>

NextAuth ==
  \/ LoginStart
  \/ InitResponds
  \/ BrowserCloses
  \/ PollResponds
  \/ SetToken
  \/ SetUser
  \/ RemoveToken
  \/ RemoveUser
  \/ \E status \in ErrorStatuses : ErrorResponse(status)

SpecAuth == InitAuth /\ [][NextAuth]_vars

\* every awaited call of a login under way is answered in the end
SpecAuthLive ==
  /\ SpecAuth
  /\ WF_vars(PollResponds)
  /\ WF_vars(SetToken)
  /\ WF_vars(SetUser)

\* -------------------------------------------------------------------------
\* registerForPushNotificationsAsync, run once at every launch of the app.
\* Push tokens are numbered in the order Expo issues them; a token that has
\* been replaced is not issued again.
\* -------------------------------------------------------------------------
\* how registerPushToken can fail: rate limited, a server error, no response
PushFailures == {429, 500, 0}

\* a test that registers at every launch
ShouldRegisterAlways(lastRegisteredToken, isRegistered, token) == TRUE

\* if (lastRegisteredToken !== token || isRegistered !== 'true')
ShouldRegister(lastRegisteredToken, isRegistered, token) ==
  lastRegisteredToken # token \/ isRegistered # "true"

InitPush ==
  /\ PushIdle
  /\ ListIdle
  /\ SearchIdle
  /\ FormatIdle
  /\ FetchIdle
  /\ AuthIdle
  /\ PhotoIdle

\* what every run does to the record of runs
RunRecorded(token, called, status) ==
  /\ launches < MaxLaunches
  /\ launches' = launches + 1
  /\ prevRun' = lastRun
  /\ lastRun' = [token |-> token, called |-> called, status |-> status]

\* the token getExpoPushTokenAsync hands out: the current one or its successor
IssuedTokens == {deviceToken, deviceToken + 1} \cap (1..MaxTokens)

\* a run that gets no token: not a device, permission not granted, or
\* getExpoPushTokenAsync threw
RunWithoutToken ==
  /\ RunRecorded(NoPushToken, FALSE, NoNumber)
  /\ UNCHANGED <<pushTokenItem, tokenRegisteredItem, deviceToken, succeeded>>
  /\ UNCHANGED <<listVars, searchVars, formatVars, fetchVars, authVars, photoVars>>

\* a run whose token is the stored one with the flag 'true': no call
RunSkipsRegistration ==
  \E token \in IssuedTokens :
    /\ ~ShouldRegister(pushTokenItem, tokenRegisteredItem, token)
    /\ RunRecorded(token, FALSE, NoNumber)
    /\ deviceToken' = token
    /\ UNCHANGED <<pushTokenItem, tokenRegisteredItem, succeeded>>
    /\ UNCHANGED <<listVars, searchVars, formatVars, fetchVars, authVars, photoVars>>

\* a run whose registerPushToken succeeds: both items are written
RunRegisters ==
  \E token \in IssuedTokens :
    /\ ShouldRegister(pushTokenItem, tokenRegisteredItem, token)
    /\ RunRecorded(token, TRUE, 200)
    /\ deviceToken' = token
    /\ pushTokenItem' = token
    /\ tokenRegisteredItem' = "true"
    /\ succeeded' = succeeded \cup {token}
    /\ UNCHANGED <<listVars, searchVars, formatVars, fetchVars, authVars, photoVars>>

\* a run whose registerPushToken throws: if (error.response?.status === 429)
\* both items are written all the same, otherwise nothing is
RunFailsToRegister ==
  \E token \in IssuedTokens, status \in PushFailures :
    /\ ShouldRegister(pushTokenItem, tokenRegisteredItem, token)
    /\ RunRecorded(token, TRUE, status)
    /\ deviceToken' = token
    /\ pushTokenItem' = IF status = 429 THEN token ELSE pushTokenItem
    /\ tokenRegisteredItem' = IF status = 429 THEN "true" ELSE tokenRegisteredItem
    /\ UNCHANGED succeeded
    /\ UNCHANGED <<listVars, searchVars, formatVars, fetchVars, authVars, photoVars>>

NextPush ==
  \/ RunWithoutToken
  \/ RunSkipsRegistration
  \/ RunRegisters
  \/ RunFailsToRegister

SpecPush == InitPush /\ [][NextPush]_vars

\* -------------------------------------------------------------------------
\* compressAndSetPhoto of the activity form.  A compressed file is named by
\* the quality it was written with, in tenths, and its base64 data by its
\* size in bytes.
\* -------------------------------------------------------------------------
\* const targetSizeBytes = 2 * 1024 * 1024
targetSizeBytes == 2 * 1024 * 1024

\* const qualityLevels = [0.9, 0.8, 0.7, 0.6, 0.5, 0.4], in tenths
qualityLevels == <<9, 8, 7, 6, 5, 4>>

\* the sizes an attempt can come out with: below, at and above the target
SizeSamples == {targetSizeBytes - 1, targetSizeBytes, targetSizeBytes + 1}

\* a test that wants the size below the target
FitsStrictly(sizeInBytes) == sizeInBytes < targetSizeBytes

\* if (sizeInBytes <= targetSizeBytes)
Fits(sizeInBytes) == sizeInBytes <= targetSizeBytes

InitPhoto ==
  /\ photoUri = 0
  /\ photoData = 0
  /\ photoPc = "idle"
  /\ tried = <<>>
  /\ photoOutcome = "none"
  /\ before = NoPhoto
  /\ ListIdle
  /\ SearchIdle
  /\ FormatIdle
  /\ FetchIdle
  /\ AuthIdle
  /\ PushIdle

\* pickImage or takePhoto calls compressAndSetPhoto(uri): the original is
\* fetched and measured, the loop is about to start
CompressStarts ==
  /\ photoPc = "idle"
  /\ photoPc' = "loop"
  /\ tried' = <<>>
  /\ photoOutcome' = "none"
  /\ before' = [uri |-> photoUri, data |-> photoData]
  /\ UNCHANGED <<photoUri, photoData>>
  /\ UNCHANGED <<listVars, searchVars, formatVars, fetchVars, authVars, pushVars>>

\* one turn of for (const quality of qualityLevels): manipulateAsync, the
\* size of the result, bestResult if it fits; then, when the loop ends here,
\* setPhotoUri and setPhotoData or the 'Photo too large' alert
CompressAttempt ==
  /\ photoPc = "loop"
  /\ Len(tried) < Len(qualityLevels)
  /\ \E sizeInBytes \in SizeSamples :
       LET quality == qualityLevels[Len(tried) + 1]
       IN  /\ tried' = Append(tried, [quality |-> quality, size |-> sizeInBytes])
           /\ IF Fits(sizeInBytes)
                THEN /\ photoUri' = quality
                     /\ photoData' = sizeInBytes
                     /\ photoOutcome' = "stored"
                     /\ photoPc' = "idle"
                ELSE IF Len(tried') = Len(qualityLevels)
                  THEN /\ photoOutcome' = "Photo too large"
                       /\ photoPc' = "idle"
                       /\ UNCHANGED <<photoUri, photoData>>
                  ELSE UNCHANGED <<photoUri, photoData, photoOutcome, photoPc>>
  /\ UNCHANGED before
  /\ UNCHANGED <<listVars, searchVars, formatVars, fetchVars, authVars, pushVars>>

\* catch (error): fetch, manipulateAsync or the reader threw;
\* Alert.alert('Error', 'Failed to process image')
CompressThrows ==
  /\ photoPc = "loop"
  /\ photoOutcome' = "Failed to process image"
  /\ photoPc' = "idle"
  /\ UNCHANGED <<photoUri, photoData, tried, before>>
  /\ UNCHANGED <<listVars, searchVars, formatVars, fetchVars, authVars, pushVars>>

\* removePhoto
RemovePhoto ==
  /\ photoPc = "idle"
  /\ photoUri # 0
  /\ photoUri' = 0
  /\ photoData' = 0
  /\ photoOutcome' = "removed"
  /\ UNCHANGED <<photoPc, tried, before>>
  /\ UNCHANGED <<listVars, searchVars, formatVars, fetchVars, authVars, pushVars>>

NextPhoto == CompressStarts \/ CompressAttempt \/ CompressThrows \/ RemovePhoto

SpecPhoto == InitPhoto /\ [][NextPhoto]_vars

\* -------------------------------------------------------------------------
\* Properties of the grouping (checked under SpecGroup)
\* -------------------------------------------------------------------------
\* positions of the input list that hold a community record with a key
KeyedPositions ==
  { i \in 1..Len(candidates) :
      ~isOSM(candidates[i]) /\ TruthyStr(candidates[i].sharedWaterBodyId) }

\* positions of the input list that belong to water body id
PositionsOf(id) ==
  { i \in KeyedPositions : candidates[i].sharedWaterBodyId = id }

\* positions of the input list that must yield a section of water body id
SectionPositionsOf(id) ==
  { i \in PositionsOf(id) : TruthyStr(candidates[i].sectionName) }

Min(S) == CHOOSE x \in S : \A y \in S : x <= y

\* the elements of seq at the positions P, in the order of seq
RECURSIVE SubSeqAt(_, _, _)
SubSeqAt(seq, P, i) ==
  IF i > Len(seq) THEN <<>>
  ELSE (IF i \in P THEN <<seq[i]>> ELSE <<>>) \o SubSeqAt(seq, P, i + 1)

RECURSIVE SumLens(_, _)
SumLens(groups, k) ==
  IF k > Len(groups) THEN 0
  ELSE Len(groups[k].sections) + SumLens(groups, k + 1)

\* C1: the groups carry pairwise distinct waterBodyIds, every distinct
\* non-empty sharedWaterBodyId of a community candidate has a group, and the
\* number of groups is the number of those ids.
C1_GroupingKeyUniqueness ==
  rendered =>
    LET ids == { candidates[i].sharedWaterBodyId : i \in KeyedPositions }
        groups == grouped.groups
    IN  /\ \A a, b \in 1..Len(groups) :
             groups[a].waterBodyId = groups[b].waterBodyId => a = b
        /\ { groups[k].waterBodyId : k \in 1..Len(groups) } = ids
        /\ Len(groups) = Cardinality(ids)

\* C1 witness: two water bodies, one of them named by two candidates
C1_Witness ==
  /\ rendered
  /\ Len(grouped.groups) = 2
  /\ \E i, j \in KeyedPositions :
       i < j /\ candidates[i].sharedWaterBodyId = candidates[j].sharedWaterBodyId

\* C3: with the toggle off osmCandidates is empty; with the toggle on it is
\* the sub-sequence of the input whose source is 'osm', duplicates kept.
C3_ToggleBehaviour ==
  rendered =>
    grouped.osmCandidates =
      IF showOSM
        THEN SubSeqAt(candidates,
                      { i \in 1..Len(candidates) : candidates[i].source = "osm" }, 1)
        ELSE <<>>

\* C3 witness: the toggle is off while the input holds the same OSM record
\* twice
C3_Witness ==
  /\ rendered
  /\ ~showOSM
  /\ grouped.osmCandidates = <<>>
  /\ \E i, j \in 1..Len(candidates) :
       i < j /\ candidates[i].source = "osm" /\ candidates[i] = candidates[j]

\* C4: the sections of a group come from the candidates of that water body
\* that have a section name, in the order of the input list.
C4_SectionInsertionOrder ==
  rendered =>
    \A k \in 1..Len(grouped.groups) :
      LET g == grouped.groups[k]
      IN  [n \in 1..Len(g.sections) |-> g.sections[n].candidate]
            = SubSeqAt(candidates, SectionPositionsOf(g.waterBodyId), 1)

\* C4 witness: two different sections of one water body with a record of
\* another water body or an OSM record between them
C4_Witness ==
  /\ rendered
  /\ \E i, j \in KeyedPositions, m \in 1..Len(candidates) :
       /\ i < m /\ m < j
       /\ candidates[i].sharedWaterBodyId = candidates[j].sharedWaterBodyId
       /\ candidates[m].sharedWaterBodyId # candidates[i].sharedWaterBodyId
       /\ TruthyStr(candidates[i].sectionName)
       /\ TruthyStr(candidates[j].sectionName)
       /\ candidates[i].sectionName # candidates[j].sectionName
  /\ \E k \in 1..Len(grouped.groups) : Len(grouped.groups[k].sections) = 2

\* C5: every community candidate with a key and a section name yields one
\* section entry: per group and in total the number of section entries is the
\* number of such candidates.
C5_NoSectionDeduplication ==
  rendered =>
    /\ \A k \in 1..Len(grouped.groups) :
         Len(grouped.groups[k].sections)
           = Cardinality(SectionPositionsOf(grouped.groups[k].waterBodyId))
    /\ SumLens(grouped.groups, 1)
         = Cardinality({ i \in KeyedPositions : TruthyStr(candidates[i].sectionName) })

\* C5 witness: a group lists two sections of the same name
C5_Witness ==
  /\ rendered
  /\ \E k \in 1..Len(grouped.groups) :
       \E a, b \in 1..Len(grouped.groups[k].sections) :
         /\ a < b
         /\ grouped.groups[k].sections[a].sectionName
              = grouped.groups[k].sections[b].sectionName

\* C6: name, type and distance of a group are those of the first input
\* candidate of that water body.
C6_FirstSeenMetadata ==
  rendered =>
    \A k \in 1..Len(grouped.groups) :
      LET g == grouped.groups[k]
          first == candidates[Min(PositionsOf(g.waterBodyId))]
      IN  /\ g.name = first.name
          /\ g.type = first.type
          /\ g.distance = first.distance

\* C6 witness: a later candidate of the water body differs in name, type and
\* distance
C6_Witness ==
  /\ rendered
  /\ \E i, j \in KeyedPositions :
       /\ i < j
       /\ candidates[i].sharedWaterBodyId = candidates[j].sharedWaterBodyId
       /\ candidates[i].name # candidates[j].name
       /\ candidates[i].type # candidates[j].type
       /\ candidates[i].distance # candidates[j].distance

\* C7: the groups are ordered by the first position of their waterBodyId in
\* the input list.
C7_GroupOrder ==
  rendered =>
    \A a, b \in 1..Len(grouped.groups) :
      a < b =>
        Min(PositionsOf(grouped.groups[a].waterBodyId))
          < Min(PositionsOf(grouped.groups[b].waterBodyId))

\* C7 witness: two water bodies, the first one named again after the second
C7_Witness ==
  /\ rendered
  /\ Len(grouped.groups) = 2
  /\ \E i, m, j \in KeyedPositions :
       /\ i < m /\ m < j
       /\ candidates[i].sharedWaterBodyId = candidates[j].sharedWaterBodyId
       /\ candidates[m].sharedWaterBodyId # candidates[i].sharedWaterBodyId

\* positions of legacy records: key and section name, no section id
LegacyPositions ==
  { i \in KeyedPositions :
      /\ TruthyStr(candidates[i].sectionName)
      /\ candidates[i].sectionId = Undefined }

\* C8: a community candidate with a key and a section name but no section id
\* yields a section entry with its section name and the empty string as id.
C8_LegacyTolerance ==
  rendered =>
    \A i \in LegacyPositions :
      \E k \in 1..Len(grouped.groups) :
        /\ grouped.groups[k].waterBodyId = candidates[i].sharedWaterBodyId
        /\ \E n \in 1..Len(grouped.groups[k].sections) :
             LET s == grouped.groups[k].sections[n]
             IN  /\ s.candidate = candidates[i]
                 /\ s.sectionName = candidates[i].sectionName
                 /\ s.sectionId = ""

\* C8 witness: the input holds a legacy record
C8_Witness ==
  /\ rendered
  /\ LegacyPositions # {}
  /\ \E k \in 1..Len(grouped.groups) :
       \E n \in 1..Len(grouped.groups[k].sections) :
         grouped.groups[k].sections[n].sectionId = ""

\* positions of community records without a grouping key
KeylessPositions ==
  { i \in 1..Len(candidates) :
      ~isOSM(candidates[i]) /\ ~TruthyStr(candidates[i].sharedWaterBodyId) }

\* the list without its element at position i
RemoveAt(seq, i) == SubSeqAt(seq, (1..Len(seq)) \ {i}, 1)

\* C9: a community candidate without sharedWaterBodyId contributes nothing:
\* the output equals the output for the list without it, no group carries a
\* missing key, and no OSM entry or section comes from it.
C9_SilentOmission ==
  rendered =>
    /\ \A i \in KeylessPositions :
         getGroupedCandidates(RemoveAt(candidates, i), showOSM) = grouped
    /\ \A k \in 1..Len(grouped.groups) :
         /\ TruthyStr(grouped.groups[k].waterBodyId)
         /\ \A n \in 1..Len(grouped.groups[k].sections) :
              TruthyStr(grouped.groups[k].sections[n].candidate.sharedWaterBodyId)
    /\ \A n \in 1..Len(grouped.osmCandidates) :
         grouped.osmCandidates[n].source = "osm"

\* C9 witness: a keyless record that names a section stands between records
\* that are grouped
C9_Witness ==
  /\ rendered
  /\ Len(grouped.groups) >= 1
  /\ \E i \in KeylessPositions :
       /\ TruthyStr(candidates[i].sectionName)
       /\ \E a, b \in KeyedPositions : a < i /\ i < b

\* -------------------------------------------------------------------------
\* Properties of the display order (checked under SpecDisplay)
\* -------------------------------------------------------------------------
\* no external entry stands before a community entry
CommunityFirst(kinds) ==
  \A a, b \in 1..Len(kinds) :
    (kinds[a] = "external" /\ kinds[b] = "community") => b < a

IsExternalResult(r) == r.id = OsmResultId("way", "123")

\* the entries of seq of one partition that have, or lack, a distance
PartitionPart(seq, external, lacking) ==
  Keep(seq, { e \in { seq[i] : i \in 1..Len(seq) } :
                /\ IsExternalResult(e) = external
                /\ (e.distance = NoNumber) = lacking }, 1)

\* C10: in the sorted results, within each partition every entry without
\* distance comes after every entry with a distance, and the entries without
\* distance keep their input order.
C10_MissingDistanceLast ==
  returned =>
    /\ \A a, b \in 1..Len(results) :
         ( /\ IsExternalResult(results[a]) = IsExternalResult(results[b])
           /\ results[a].distance = NoNumber
           /\ results[b].distance # NoNumber ) => b < a
    /\ \A external \in BOOLEAN :
         PartitionPart(results, external, TRUE)
           = PartitionPart(Normalize(waterBodies, 1), external, TRUE)

\* the results one partition shows, in display order: of the community
\* results the first one of every water body (its group takes the place and
\* the distance of the first record seen), of the external results all
DisplayedResults(seq, external) ==
  SubSeqAt(seq,
           { i \in 1..Len(seq) :
               IF external
                 THEN IsExternalResult(seq[i])
                 ELSE /\ ~IsExternalResult(seq[i])
                      /\ TruthyStr(seq[i].sharedWaterBody._id)
                      /\ \A j \in 1..(i - 1) :
                           \/ IsExternalResult(seq[j])
                           \/ seq[j].sharedWaterBody._id # seq[i].sharedWaterBody._id },
           1)

\* adjacent entries that both have a distance are in ascending order
AdjacentAscending(seq) ==
  \A k \in 1..(Len(seq) - 1) :
    (seq[k].distance # NoNumber /\ seq[k + 1].distance # NoNumber)
      => seq[k].distance <= seq[k + 1].distance

\* C11: in the display order of the sorted results, within each partition any
\* two adjacent entries that both have a distance are in ascending order,
\* also when entries with and without distance are mixed.
C11_DistanceMonotonicity ==
  returned =>
    \A external \in BOOLEAN :
      AdjacentAscending(DisplayedResults(results, external))

\* the entries of seq of one partition at distance d
TiePart(seq, external, d) ==
  Keep(seq, { e \in { seq[i] : i \in 1..Len(seq) } :
                IsExternalResult(e) = external /\ e.distance = d }, 1)

\* C12: candidates of one partition with identical distance keep their
\* input order in the sorted results.
C12_StabilityUnderTies ==
  returned =>
    \A external \in BOOLEAN, d \in Distances \ {NoNumber} :
      TiePart(results, external, d) = TiePart(Normalize(waterBodies, 1), external, d)

\* -------------------------------------------------------------------------
\* Properties of the formatter (checked under SpecFormat)
\* -------------------------------------------------------------------------
\* C13: below 1000 metres the text is the nearest integer followed by 'm', from
\* 1000 metres on it is the number of kilometres nearest to meters / 1000 with
\* one decimal followed by 'km'; 999 gives '999m' and 1000 gives '1.0km'; the
\* formatter of the list and the one of the service return the same text.
C13_Formatter ==
  serviceText # "" =>
    /\ meters < 10000 =>
         \E k \in {meters \div 10, (meters \div 10) + 1} :
           /\ (10 * k) - meters \in -5..5
           /\ serviceText = ToString(k) \o "m"
    /\ meters >= 10000 =>
         \E n \in {meters \div 1000, (meters \div 1000) + 1} :
           /\ (1000 * n) - meters \in -500..500
           /\ serviceText = ToString(n \div 10) \o "." \o ToString(n % 10) \o "km"
    /\ meters = 9990 => serviceText = "999m"
    /\ meters = 10000 => serviceText = "1.0km"
    /\ listText = serviceText

\* C13 witness: exactly 1000 metres have been formatted as kilometres
C13_Witness ==
  /\ meters = 10000
  /\ serviceText = "1.0km"
  /\ listText = "1.0km"

\* -------------------------------------------------------------------------
\* The worked example and the shape of groups and sections (SpecGroup)
\* -------------------------------------------------------------------------
\* two sections of water body w1 at 500 metres and one OSM record at 100
ExampleCandidates ==
  << Cand("shared_database", "w1", "Lake A", "lake", 500, "Upper", "s1", 0, Undefined),
     Cand("shared_database", "w1", "Lake A", "lake", 500, "Lower", "s2", 1, Undefined),
     Cand("osm", Undefined, "OSM Lake", "lake", 100, Undefined, Undefined, NoNumber, "123") >>

\* C14: for the example list, with the toggle on, the list drawn is the one
\* group w1 with the sections s1, s2 in that order followed by the OSM record
\* 123, although the OSM record is the closer one.
C14_EndToEndExample ==
  (rendered /\ showOSM /\ candidates = ExampleCandidates) =>
    /\ DisplayOrder(grouped) =
         << [kind |-> "community", key |-> "w1"],
            [kind |-> "external", key |-> "123"] >>
    /\ Len(grouped.groups) = 1
    /\ [n \in 1..Len(grouped.groups[1].sections) |->
          grouped.groups[1].sections[n].sectionId] = <<"s1", "s2">>
    /\ grouped.osmCandidates[1].distance < grouped.groups[1].distance

\* C14 witness: the example list has been drawn with the toggle on
C14_Witness ==
  /\ rendered
  /\ showOSM
  /\ candidates = ExampleCandidates
  /\ Len(grouped.osmCandidates) = 1

\* C17: every community record with a key has its group whether or not it
\* names a section, and a group's sections are empty exactly when no record of
\* that water body names a section.
C17_GroupsWithoutSections ==
  rendered =>
    /\ \A i \in KeyedPositions :
         \E k \in 1..Len(grouped.groups) :
           grouped.groups[k].waterBodyId = candidates[i].sharedWaterBodyId
    /\ \A k \in 1..Len(grouped.groups) :
         (grouped.groups[k].sections = <<>>)
           <=> (SectionPositionsOf(grouped.groups[k].waterBodyId) = {})

\* C17 witness: a group without sections next to a group with a section
C17_Witness ==
  /\ rendered
  /\ \E a, b \in 1..Len(grouped.groups) :
       /\ grouped.groups[a].sections = <<>>
       /\ grouped.groups[b].sections # <<>>

\* C18: a section entry carries the record's sectionIndex, or 0 when the record
\* has none, and the record's sectionId, or '' when the record has none.
C18_SectionDefaults ==
  rendered =>
    \A k \in 1..Len(grouped.groups) :
      \A n \in 1..Len(grouped.groups[k].sections) :
        LET entry == grouped.groups[k].sections[n]
            c == entry.candidate
        IN  /\ entry.sectionIndex =
                 (IF c.sectionIndex = NoNumber THEN 0 ELSE c.sectionIndex)
            /\ entry.sectionId =
                 (IF c.sectionId = Undefined THEN "" ELSE c.sectionId)

\* C18 witness: a section from a record without index and id, and a section
\* from a record with index 1
C18_Witness ==
  /\ rendered
  /\ \E k \in 1..Len(grouped.groups) :
       \E n \in 1..Len(grouped.groups[k].sections) :
         /\ grouped.groups[k].sections[n].candidate.sectionIndex = NoNumber
         /\ grouped.groups[k].sections[n].candidate.sectionId = Undefined
         /\ grouped.groups[k].sections[n].sectionIndex = 0
         /\ grouped.groups[k].sections[n].sectionId = ""
  /\ \E k \in 1..Len(grouped.groups) :
       \E n \in 1..Len(grouped.groups[k].sections) :
         grouped.groups[k].sections[n].sectionIndex = 1

\* -------------------------------------------------------------------------
\* Properties of the normalizing step of searchCombined (SpecSearch)
\* -------------------------------------------------------------------------
\* a raw record that belongs to one of the two provenance classes: it has a
\* water body id under one of its two names, or an osmId
Classifiable(candidate) ==
  \/ TruthyStr(candidate.waterBodyId)
  \/ TruthyStr(candidate.sharedWaterBodyId)
  \/ TruthyStr(candidate.osmId)

\* C15: a raw record is dropped exactly when it has no water body id under
\* either name and no osmId, every other record gives one result, and the
\* number of results is the number of such records.
C15_NormalizerDropRule ==
  returned =>
    /\ \A i \in 1..Len(waterBodies) :
         Len(NormalizeCandidate(waterBodies[i])) =
           (IF Classifiable(waterBodies[i]) THEN 1 ELSE 0)
    /\ Len(results) =
         Cardinality({ i \in 1..Len(waterBodies) : Classifiable(waterBodies[i]) })

\* a community record with a water body id and a section name, under either
\* name, but without sectionId
LegacySectionRecord(candidate) ==
  /\ ~TruthyStr(candidate.osmId)
  /\ TruthyStr(OrElse(candidate.waterBodyId, candidate.sharedWaterBodyId))
  /\ TruthyStr(OrElse(candidate.sectionName, candidate.section))
  /\ ~TruthyStr(candidate.sectionId)

\* C16: a record with a water body id and a section name but no sectionId is
\* kept and its result carries the section name; a record without coordinates
\* or without distance is kept like any other.
C16_NormalizerTolerance ==
  returned =>
    /\ \A i \in 1..Len(waterBodies) :
         LegacySectionRecord(waterBodies[i]) =>
           \E k \in 1..Len(results) :
             /\ results[k].sharedWaterBody._id =
                  OrElse(waterBodies[i].waterBodyId, waterBodies[i].sharedWaterBodyId)
             /\ "section" \in DOMAIN results[k]
             /\ results[k].section.sectionName =
                  OrElse(waterBodies[i].sectionName, waterBodies[i].section)
             /\ ~TruthyStr(results[k].section._id)
    /\ \A i \in 1..Len(waterBodies) :
         ( /\ Classifiable(waterBodies[i])
           /\ \/ waterBodies[i].distance = NoNumber
              \/ /\ waterBodies[i].coordinates = NoCoordinates
                 /\ waterBodies[i].sectionCoordinates = NoCoordinates )
           => Len(NormalizeCandidate(waterBodies[i])) = 1

\* -------------------------------------------------------------------------
\* Properties of the selection list with overlapping calls (SpecOverlap)
\* -------------------------------------------------------------------------
\* C21: a step that changes showOSM starts no call of fetchWaterBodies and
\* leaves candidates, osmStatus, error and isLoading as they are; the list it
\* draws is the grouping of the same candidates, and changing showOSM back
\* gives the groups and OSM entries drawn before the step.
C21_ToggleNeedsNoFetch ==
  [][ showOSM' # showOSM =>
        /\ UNCHANGED <<candidates, osmStatus, error, isLoading>>
        /\ UNCHANGED <<requests, pending>>
        /\ grouped' = getGroupedCandidates(candidates, showOSM')
        /\ getGroupedCandidates(candidates', ~showOSM') = grouped ]_vars

\* C21 witness: the toggle is off while the list holds an OSM record, a call
\* is still waiting, and the groups are drawn without the OSM record
C21_Witness ==
  /\ rendered
  /\ ~showOSM
  /\ pending # {}
  /\ \E i \in 1..Len(candidates) : isOSM(candidates[i])
  /\ grouped.osmCandidates = <<>>
  /\ grouped.groups # <<>>

\* C22: once no call is waiting any more, candidates, osmStatus and error are
\* those of the call started last.
C22_SupersededSearchesDiscarded ==
  (pending = {} /\ requests # <<>>) =>
    LET latest == requests[Len(requests)].outcome
    IN  IF latest.kind = "resolved"
          THEN /\ candidates = latest.results
               /\ osmStatus = latest.osmStatus
               /\ error = ""
          ELSE /\ candidates = <<>>
               /\ osmStatus = NoStatus
               /\ error = latest.message

\* C23: isLoading is true as long as some call of fetchWaterBodies is waiting
\* for searchCombined, also when two calls overlap.
C23_LoadingMatchesInFlight ==
  pending # {} => isLoading

\* -------------------------------------------------------------------------
\* The toggle and the section keys (SpecGroup)
\* -------------------------------------------------------------------------
\* C24: the groups drawn are the groups getGroupedCandidates returns for the
\* same list with the other value of showOSM: same ids, order, metadata and
\* sections; only osmCandidates depends on showOSM.
C24_GroupsIndependentOfToggle ==
  rendered =>
    /\ grouped.groups = getGroupedCandidates(candidates, ~showOSM).groups
    /\ getGroupedCandidates(candidates, TRUE).groups
         = getGroupedCandidates(candidates, FALSE).groups

\* C24 witness: the toggle is off, the list holds an OSM record that is not
\* drawn, and a group with a section is drawn
C24_Witness ==
  /\ rendered
  /\ ~showOSM
  /\ \E i \in 1..Len(candidates) : isOSM(candidates[i])
  /\ grouped.osmCandidates = <<>>
  /\ \E k \in 1..Len(grouped.groups) : grouped.groups[k].sections # <<>>

\* C25: within a group the section entries have pairwise distinct
\* sectionIndex values, the key under which the list draws a section.
C25_SectionKeysUnique ==
  rendered =>
    \A k \in 1..Len(grouped.groups) :
      \A m, n \in 1..Len(grouped.groups[k].sections) :
        grouped.groups[k].sections[m].sectionIndex
          = grouped.groups[k].sections[n].sectionIndex => m = n

C27_RateLimitedIsRetried ==
  ( /\ prevRun.called
    /\ prevRun.status = 429
    /\ lastRun.token = prevRun.token ) => lastRun.called

C30_GreedyCompression ==
  /\ Len(tried) <= 6
  /\ \A k \in 1..Len(tried) : tried[k].quality = <<9, 8, 7, 6, 5, 4>>[k]
  /\ \A k \in 1..(Len(tried) - 1) : tried[k].size > 2097152
  /\ (tried # <<>> /\ tried[Len(tried)].size <= 2097152) =>
       photoOutcome \in {"stored", "removed"}
  /\ photoOutcome = "stored" =>
       /\ tried # <<>>
       /\ tried[Len(tried)].size <= 2097152
       /\ photoUri = tried[Len(tried)].quality
       /\ photoData = tried[Len(tried)].size
  /\ photoOutcome = "Photo too large" => Len(tried) = 6
  /\ (Len(tried) = 6 /\ tried[6].size > 2097152) =>
       photoOutcome \in {"Photo too large", "removed"}
  /\ photoOutcome \in {"Photo too large", "Failed to process image"} =>
       photoUri = before.uri /\ photoData = before.data

\* C30 witness: the sixth attempt was the first to fit, at exactly 2 MB, and
\* replaced a photo attached before at quality 0.9
C30_Witness ==
  /\ photoOutcome = "stored"
  /\ Len(tried) = 6
  /\ photoUri = 4
  /\ photoData = 2097152
  /\ before.uri = 9

====
